---- MODULE Spec2Model ----
(***************************************************************************)
(* Session establishment and message synchronisation of the chat app:      *)
(* MessagingService (connection manager and fan-out), DatabaseService      *)
(* (SQLite store), the AsyncStorage slots ('currentConnection',            *)
(* 'sessionEnded:<id>') and the screens that drive them (HomeScreen,       *)
(* QRGenerator, QRScanner, ChatInterface).  FirebaseService, the real-time *)
(* channel adapter, is not part of the sources; it is modelled from        *)
(* section 4.2 of the specification as a session-scoped, at-least-once     *)
(* publish/subscribe channel.                                              *)
(*                                                                         *)
(* Asynchronous handlers are split at their awaits: one action runs from   *)
(* one suspension point to the next.                                       *)
(***************************************************************************)
EXTENDS Integers, Sequences, FiniteSets, TLC

\* ---------------------------------------------------------------- bounds
MaxClock == 2   \* wall-clock values 1..MaxClock
MaxOps == 3     \* user operations: connect, open or close the chat, send,
                \* disconnect, kill and relaunch the app
MaxNet == 2     \* steps of the environment: peer publishes, deliveries of an
                \* event delivered before, clock ticks

Sessions == {"s1", "s2"}
LocalNames == {"Alice"}
\* A peer that picks the local display name cannot be told from an echo
\* (specification, section 9); the peer names are kept apart from the local ones.
PeerNames == {"Bob"}
null == "null"
MaxCallers == 2   \* callers of store operations at a time
Callers == 1..MaxCallers
Unknown == "Unknown"

VARIABLES
  \* MessagingService
  currentSessionId, currentUserName, firebaseSubscribedForSession,
  connPc, connInfo, connOrigin, connResult, lastConnNotify, lastFanout,
  \* FirebaseService (channel adapter)
  fbEnabled, fbConnected, fbSubs, subCount, channel, delivered, pendingSys,
  \* AsyncStorage
  storedConnection, sessionEnded,
  \* DatabaseService
  dbMessages, dbSessions,
  \* HomeScreen / ChatInterface
  isInitialized, notification, chatSession, messages, peerDisconnected, lastAlert,
  sendPc, sendMsg, sendMounted, msgData, sendResult,
  \* the clock, the sessions whose "disconnected" event was processed, budgets
  now, discProcessed, ops, net,
  \* MessagingService's listener registries, and the listeners the last fan-out
  \* invoked and those whose error it logged
  messageListeners, connectionListeners, called, logged,
  \* initializeConnection has returned on its timeout while establishConnection runs on
  timedOut,
  \* DatabaseService at the grain of table rows: the rows of chat_sessions, and
  \* the session a deleteChatSession in progress is deleting
  sessionRows, deletePc,
  \* DatabaseService's initialization: its fields, the position of the
  \* initialization in flight, the number in flight, each caller's position
  isInitializedFlag, initializePromise, db, initPc, running, opPc,
  \* QRScanner: its state, and the alert it shows
  scanning, isProcessingScan, showManualInput, showNameInput, scannedData,
  isConnecting, scanAlert

vars == <<currentSessionId, currentUserName, firebaseSubscribedForSession,
          connPc, connInfo, connOrigin, connResult, lastConnNotify, lastFanout,
          fbEnabled, fbConnected, fbSubs, subCount, channel, delivered, pendingSys,
          storedConnection, sessionEnded, dbMessages, dbSessions,
          isInitialized, notification, chatSession, messages, peerDisconnected,
          lastAlert, sendPc, sendMsg, sendMounted, msgData, sendResult,
          now, discProcessed, ops, net,
          messageListeners, connectionListeners, called, logged, timedOut,
          sessionRows, deletePc,
          isInitializedFlag, initializePromise, db, initPc, running, opPc,
          scanning, isProcessingScan, showManualInput, showNameInput, scannedData,
          isConnecting, scanAlert>>

\* The listener registries at the grain of single listeners.
lsnVars == <<messageListeners, connectionListeners, called, logged>>
\* What the handlers of the manager leave alone: the configuration and the
\* registries; and, but for the steps of a connection attempt, the timeout mark.
\* The store at the grain of table rows.
rowVars == <<sessionRows, deletePc>>
\* The initialization of the store.
initVars == <<isInitializedFlag, initializePromise, db, initPc, running, opPc>>
\* The scanner screen.
scanVars == <<scanning, isProcessingScan, showManualInput, showNameInput, scannedData,
              isConnecting, scanAlert>>
cfgVars == <<fbEnabled, lsnVars, rowVars, initVars, scanVars>>
envVars == <<cfgVars, timedOut>>

msVars == <<currentSessionId, currentUserName, firebaseSubscribedForSession>>
connVars == <<connPc, connInfo, connOrigin, connResult>>
fbVars == <<fbConnected, fbSubs, subCount, channel, delivered, pendingSys>>
dbVars == <<dbMessages, dbSessions>>
chatVars == <<chatSession, messages, peerDisconnected>>
sendVars == <<sendPc, sendMsg, sendMounted, msgData, sendResult>>

\* ------------------------------------------------------------ data shapes
\* MessageEventData: a user message or a system event on a session's channel.
UserEvent(s, n, t) ==
  [sessionId |-> s, sender |-> n, content |-> "text", timestamp |-> t,
   type |-> "user", event |-> "none"]

SystemEvent(s, ev, actor, t) ==
  [sessionId |-> s, sender |-> actor, content |-> ev, timestamp |-> t,
   type |-> "system", event |-> ev]

\* Message row of the store (the id is the position in dbMessages).
Row(s, n, c, t, own) ==
  [sessionId |-> s, sender |-> n, content |-> c, timestamp |-> t, isOwn |-> own]

\* ChatSession row.
SessionRow(p, c, l) == [participantName |-> p, createdAt |-> c, lastMessageAt |-> l]

\* ChatConnectionInfo (the server address plays no part in the logic).
ConnInfo(s, n) == [sessionId |-> s, userName |-> n]

NoConn == ConnInfo(null, null)
NoRow == Row(null, null, null, 0, FALSE)
NoEvent == [sessionId |-> null, sender |-> null, content |-> null, timestamp |-> 0,
            type |-> "user", event |-> "none"]
NoFanout == [event |-> NoEvent, listeners |-> {}]

\* Everything the peer can publish within the bounds.
PeerEvents ==
  {UserEvent(s, n, t) : s \in Sessions, n \in PeerNames, t \in 1..MaxClock}
  \cup {SystemEvent(s, ev, n, t) : s \in Sessions, ev \in {"joined", "disconnected"},
                                   n \in PeerNames, t \in 1..MaxClock}

\* Everything the local device can publish within the bounds.
LocalEvents ==
  {UserEvent(s, n, t) : s \in Sessions, n \in LocalNames, t \in 1..MaxClock}
  \cup {SystemEvent(s, ev, n, t) : s \in Sessions, ev \in {"joined", "disconnected"},
                                   n \in LocalNames, t \in 1..MaxClock}

AllEvents == PeerEvents \cup LocalEvents

\* ------------------------------------------------------- DatabaseService
\* INSERT INTO messages: a new row, whatever rows exist already.
SaveMessage(rows, m) == Append(rows, m)

InsertByTimestamp(sorted, r) ==
  LET k == Cardinality({i \in DOMAIN sorted : sorted[i].timestamp <= r.timestamp})
  IN SubSeq(sorted, 1, k) \o <<r>> \o SubSeq(sorted, k + 1, Len(sorted))

RECURSIVE SortByTimestamp(_)
SortByTimestamp(rows) ==
  IF rows = <<>> THEN <<>>
  ELSE InsertByTimestamp(SortByTimestamp(SubSeq(rows, 1, Len(rows) - 1)), rows[Len(rows)])

SessionFilter(rows, s) == SelectSeq(rows, LAMBDA r : r.sessionId = s)

\* A query without its ORDER BY clause.
GetMessagesUnordered(rows, s) == SessionFilter(rows, s)

\* SELECT * FROM messages WHERE sessionId = ? ORDER BY timestamp ASC (rows with
\* equal timestamps in the order of their ids, the order of the table scan).
GetMessages(rows, s) == SortByTimestamp(SessionFilter(rows, s))

\* INSERT OR REPLACE INTO chat_sessions, sessionId being UNIQUE.
SaveChatSession(tbl, s, row) ==
  [x \in DOMAIN tbl \cup {s} |-> IF x = s THEN row ELSE tbl[x]]

\* UPDATE chat_sessions SET lastMessageAt = ? WHERE sessionId = ?
UpdateSessionLastMessage(tbl, s, t) ==
  IF s \in DOMAIN tbl THEN [tbl EXCEPT ![s].lastMessageAt = t] ELSE tbl

\* UPDATE chat_sessions SET participantName = ? WHERE sessionId = ?
UpdateSessionParticipantName(tbl, s, n) ==
  IF s \in DOMAIN tbl THEN [tbl EXCEPT ![s].participantName = n] ELSE tbl

\* The sessions getChatSessions() lists.
GetChatSessions(tbl) == DOMAIN tbl

\* ----------------------------------------------------------- AsyncStorage
\* A single flag slot, overwritten by each session that ends.
FlagOnly(flags, s) == {s}

\* AsyncStorage.setItem(`sessionEnded:${s}`, '1'): one key per session id.
FlagSession(flags, s) == flags \cup {s}

\* ------------------------------------------------------ listener fan-out
\* isConnected()
IsConnected == currentSessionId # null

\* The message listeners registered: HomeScreen's, and the open chat screen's.
MessageListeners == {"home"} \cup (IF chatSession # null THEN {"chat"} ELSE {})

\* HomeScreen's onMessage shows a notification: not for the user's own
\* messages, and not for the session whose chat screen is open.
HomeNotifies(m) ==
  /\ ~(currentUserName # null /\ m.sender = currentUserName)
  /\ chatSession = null \/ chatSession # m.sessionId

\* handleIncomingMessage goes past its session filter and its echo filter.
ChatAccepts(m) ==
  /\ chatSession # null
  /\ m.sessionId = chatSession
  /\ ~(currentUserName # null /\ m.sender = currentUserName)

\* The store writes handleIncomingMessage issues for an accepted event.  (Its
\* placeholder-name inference writes the sender of a user message, the value
\* notifyMessageListeners writes for the same event right after.)
ChatListenerSessions(tbl, m) ==
  IF ChatAccepts(m) /\ m.type = "system" /\ m.event = "joined" /\ m.sender # "system"
  THEN UpdateSessionParticipantName(tbl, chatSession, m.sender)
  ELSE tbl

\* A fan-out that persists nothing it is handed.
PersistsNothing(m) == FALSE

\* notifyMessageListeners persists what the sender test lets through.
PersistsIncoming(m) == m.sender # currentUserName

NotifySessions(tbl, m) ==
  LET touched == UpdateSessionLastMessage(tbl, m.sessionId, m.timestamp)
  IN IF (m.type # "system" /\ m.sender # "system")
        \/ (m.type = "system" /\ m.event = "joined" /\ m.sender # "system")
     THEN UpdateSessionParticipantName(touched, m.sessionId, m.sender)
     ELSE touched

\* notifyMessageListeners(message): every registered listener is called, then
\* the event is persisted unless its sender is the current user name.
NotifyMessageListeners(m) ==
  /\ lastFanout' = [event |-> m, listeners |-> MessageListeners]
  /\ notification' = (IF HomeNotifies(m) THEN m.sessionId ELSE notification)
  /\ messages' = IF ChatAccepts(m)
                 THEN Append(messages, Row(chatSession, m.sender, m.content, m.timestamp, FALSE))
                 ELSE messages
  /\ peerDisconnected' =
       (peerDisconnected \/ (ChatAccepts(m) /\ m.type = "system" /\ m.event = "disconnected"))
  /\ sessionEnded' =
       IF ChatAccepts(m) /\ m.type = "system" /\ m.event = "disconnected"
       THEN FlagSession(sessionEnded, chatSession) ELSE sessionEnded
  /\ dbMessages' =
       IF PersistsIncoming(m)
       THEN SaveMessage(dbMessages, Row(m.sessionId, m.sender, m.content, m.timestamp, FALSE))
       ELSE dbMessages
  /\ dbSessions' =
       IF PersistsIncoming(m)
       THEN NotifySessions(ChatListenerSessions(dbSessions, m), m)
       ELSE ChatListenerSessions(dbSessions, m)
  /\ discProcessed' =
       IF m.type = "system" /\ m.event = "disconnected" /\ m.sender \in PeerNames
       THEN discProcessed \cup {m.sessionId} ELSE discProcessed

\* notifyConnectionListeners(connected): the value every registered connection
\* listener (the chat screen's, when mounted) is called with.
NotifyConnectionListeners(connected) ==
  lastConnNotify' = (IF connected THEN "true" ELSE "false")

\* ------------------------------------------------------------------ Init
\* A freshly installed app at process start; the backend is configured or not.
Init ==
  /\ currentSessionId = null /\ currentUserName = null
  /\ firebaseSubscribedForSession = null
  /\ connPc = "idle" /\ connInfo = NoConn /\ connOrigin = "none" /\ connResult = "none"
  /\ lastConnNotify = "none" /\ lastFanout = NoFanout
  /\ fbEnabled \in BOOLEAN
  /\ fbConnected = FALSE /\ fbSubs = {} /\ channel = {} /\ pendingSys = {}
  /\ subCount = [s \in Sessions |-> 0]
  /\ delivered = {}
  /\ storedConnection = NoConn /\ sessionEnded = {}
  /\ dbMessages = <<>> /\ dbSessions = [s \in {} |-> SessionRow(Unknown, 0, 0)]
  /\ isInitialized = FALSE /\ notification = null
  /\ chatSession = null /\ messages = <<>> /\ peerDisconnected = FALSE
  /\ lastAlert = "none"
  /\ sendPc = "idle" /\ sendMsg = NoRow /\ sendMounted = FALSE
  /\ msgData = NoEvent /\ sendResult = "none"
  /\ now = 1 /\ discProcessed = {} /\ ops = 0 /\ net = 0
  /\ messageListeners = <<>> /\ connectionListeners = <<>>
  /\ called = <<>> /\ logged = {}
  /\ timedOut = FALSE
  /\ sessionRows = <<>> /\ deletePc = null
  /\ isInitializedFlag = FALSE /\ initializePromise = "none" /\ db = null
  /\ initPc = "none" /\ running = 0 /\ opPc = [c \in Callers |-> "idle"]
  /\ scanning = FALSE /\ isProcessingScan = FALSE /\ showManualInput = FALSE
  /\ showNameInput = FALSE /\ scannedData = NoConn /\ isConnecting = FALSE
  /\ scanAlert = "none"

\* ------------------------------------------------------ MessagingService
\* establishConnection up to its first await: the session is taken over and
\* the write of 'currentConnection' is issued.
EstablishBegin(info, origin) ==
  /\ currentSessionId' = info.sessionId
  /\ currentUserName' = info.userName
  /\ connPc' = "persist" /\ connInfo' = info /\ connOrigin' = origin
  /\ connResult' = "none" /\ timedOut' = FALSE

\* A restore that replays whatever the slot holds.
RestoredUnchecked(readable) == storedConnection

\* The descriptor restoreConnection() obtains: the parsed contents of the
\* 'currentConnection' slot; none when the slot is empty, or when reading or
\* parsing it throws (the catch returns false).
RestoredDescriptor(readable) == IF readable THEN storedConnection ELSE NoConn

\* initializeApp: DatabaseService.initialize(), then restoreConnection().
Boot(readable) ==
  /\ ~isInitialized /\ connPc = "idle"
  /\ IF RestoredDescriptor(readable) # NoConn
     THEN /\ EstablishBegin(RestoredDescriptor(readable), "restore")
          /\ UNCHANGED isInitialized
     ELSE /\ connResult' = "false" /\ isInitialized' = TRUE
          /\ UNCHANGED <<currentSessionId, currentUserName, connPc, connInfo, connOrigin,
                         timedOut>>
  /\ UNCHANGED <<firebaseSubscribedForSession, lastConnNotify, lastFanout, cfgVars,
                 fbVars, storedConnection, sessionEnded, dbVars, notification, chatVars,
                 lastAlert, sendVars, now, discProcessed, ops, net>>

\* Nothing is recorded anywhere for s: a session id the host has just generated.
Fresh(s) ==
  /\ s \notin DOMAIN dbSessions /\ s \notin sessionEnded /\ s \notin discProcessed
  /\ \A e \in channel \cup pendingSys : e.sessionId # s
  /\ \A i \in DOMAIN dbMessages : dbMessages[i].sessionId # s
  /\ storedConnection.sessionId # s /\ currentSessionId # s /\ connInfo.sessionId # s

\* Session ids are taken in order: "s2" comes into play after "s1".
InPlay(s) == s = "s1" \/ ~Fresh("s1")

\* generateQRCode (the host) or connectToChat (the joiner) calls initializeConnection.
Connect(s, n, origin) ==
  /\ isInitialized /\ chatSession = null /\ connPc = "idle" /\ ops < MaxOps
  /\ InPlay(s)
  /\ origin = "host" => Fresh(s)
  /\ EstablishBegin(ConnInfo(s, n), origin)
  /\ ops' = ops + 1
  /\ UNCHANGED <<firebaseSubscribedForSession, lastConnNotify, lastFanout, cfgVars,
                 fbVars, storedConnection, sessionEnded, dbVars, isInitialized,
                 notification, chatVars, lastAlert, sendVars, now, discProcessed, net>>

\* initializeChat: history, the persisted ended flag, the connection state, and a
\* session row under the current user's name when the store has none.
InitializeChatSessions(tbl, s) ==
  IF s \notin DOMAIN tbl /\ currentUserName # null
  THEN SaveChatSession(tbl, s, SessionRow(currentUserName, now, now))
  ELSE tbl

\* handleConnectionEstablished(sessionId, participantName), "" for no name given.
HandleConnectionEstablished(tbl, s, participantName) ==
  LET shown == IF participantName # "" THEN participantName
               ELSE IF currentUserName # null THEN currentUserName ELSE Unknown
      saved == SaveChatSession(tbl, s, SessionRow(shown, now, now))
  IN IF currentUserName # null
     THEN UpdateSessionParticipantName(saved, s, currentUserName)
     ELSE saved

\* A sendSystemEvent that does not ask whether a backend is active.
SendSystemEventUnguarded(ev, actorName) ==
  IF currentSessionId = null THEN {}
  ELSE {SystemEvent(currentSessionId, ev, actorName, now)}

\* MessagingService.sendSystemEvent(ev, actorName): the publishes it starts.
\* Without a current session or without a backend it returns at once; the
\* actor is the name given, else the current user name, else 'system'.
SendSystemEvent(ev, actorName) ==
  IF currentSessionId = null \/ ~fbEnabled THEN {}
  ELSE {SystemEvent(currentSessionId, ev,
                    IF actorName # "" THEN actorName
                    ELSE IF currentUserName # null THEN currentUserName ELSE "system",
                    now)}

\* The attempt succeeded: listeners hear true, initializeConnection returns true,
\* and the caller goes on (the joiner opens the chat and announces itself).  An
\* attempt initializeConnection has given up on has no caller left to go on.
EstablishSucceed ==
  /\ NotifyConnectionListeners(TRUE)
  /\ connResult' = (IF timedOut THEN connResult ELSE "true") /\ connPc' = "idle"
  /\ UNCHANGED <<connInfo, connOrigin, timedOut>>
  /\ isInitialized' = (isInitialized \/ connOrigin = "restore")
  /\ IF connOrigin = "join" /\ ~timedOut
     THEN \E host \in PeerNames :
          /\ chatSession' = connInfo.sessionId
          /\ dbSessions' = HandleConnectionEstablished(dbSessions, connInfo.sessionId, host)
          /\ messages' = GetMessages(dbMessages, connInfo.sessionId)
          /\ peerDisconnected' = (connInfo.sessionId \in sessionEnded)
          /\ pendingSys' = pendingSys \cup SendSystemEvent("joined", connInfo.userName)
     ELSE UNCHANGED <<chatSession, dbSessions, messages, peerDisconnected, pendingSys>>

\* The attempt threw: initializeConnection's catch notifies false and returns
\* false; the rejection of an attempt it has given up on is dropped by the race.
EstablishFail ==
  /\ IF timedOut THEN UNCHANGED lastConnNotify ELSE NotifyConnectionListeners(FALSE)
  /\ connResult' = "false" /\ connPc' = "idle"
  /\ UNCHANGED <<connInfo, connOrigin, timedOut>>
  /\ isInitialized' = (isInitialized \/ connOrigin = "restore")
  /\ UNCHANGED <<chatSession, dbSessions, messages, peerDisconnected, pendingSys>>

\* An establishConnection that goes on whether or not the descriptor was written.
AfterPersistUnchecked(ok) == IF fbEnabled THEN "connect" ELSE "done"

\* Where establishConnection goes once AsyncStorage.setItem has settled: a
\* rejection is thrown to initializeConnection's catch; with a backend the
\* adapter's connect is called next, without one the attempt is complete.
AfterPersist(ok) ==
  IF ~ok THEN "failed" ELSE IF fbEnabled THEN "connect" ELSE "done"

\* AsyncStorage.setItem('currentConnection') settles.
EstablishPersisted(ok) ==
  /\ connPc = "persist"
  /\ storedConnection' = (IF ok THEN connInfo ELSE storedConnection)
  /\ CASE AfterPersist(ok) = "connect" ->
            /\ connPc' = "connect"
            /\ UNCHANGED <<connInfo, connOrigin, connResult, lastConnNotify,
                           isInitialized, chatVars, dbSessions, pendingSys, timedOut>>
       [] AfterPersist(ok) = "done" -> EstablishSucceed
       [] OTHER -> EstablishFail
  /\ UNCHANGED <<msVars, lastFanout, cfgVars, fbConnected, fbSubs, subCount, channel, delivered,
                 sessionEnded, dbMessages, notification, lastAlert, sendVars, now,
                 discProcessed, ops, net>>

\* A subscribe that registers one more callback whatever is registered.
SubscribeAgain(count, s) == [count EXCEPT ![s] = @ + 1]

\* The adapter's subscribe, idempotent per session: the live subscriptions of
\* each session after subscribe(s).
Subscribe(count, s) == [count EXCEPT ![s] = 1]

\* FirebaseService.connect settles; the session is subscribed unless the marker
\* says it is already.
EstablishConnected(ok, subOk) ==
  /\ connPc = "connect"
  /\ IF ~ok
     THEN /\ EstablishFail
          /\ UNCHANGED <<fbConnected, fbSubs, subCount, firebaseSubscribedForSession>>
     ELSE /\ fbConnected' = TRUE
          /\ IF firebaseSubscribedForSession = connInfo.sessionId
             THEN /\ EstablishSucceed
                  /\ UNCHANGED <<fbSubs, subCount, firebaseSubscribedForSession>>
             ELSE IF subOk
             THEN /\ fbSubs' = fbSubs \cup {connInfo.sessionId}
                  /\ subCount' = Subscribe(subCount, connInfo.sessionId)
                  /\ firebaseSubscribedForSession' = connInfo.sessionId
                  /\ EstablishSucceed
             ELSE /\ EstablishFail
                  /\ UNCHANGED <<fbSubs, subCount, firebaseSubscribedForSession>>
  /\ UNCHANGED <<currentSessionId, currentUserName, lastFanout, cfgVars, channel,
                 delivered, storedConnection, sessionEnded, dbMessages, notification,
                 lastAlert, sendVars, now, discProcessed, ops, net>>

\* A removal that leaves the slot as it is.
DescriptorKept(removeOk) == storedConnection

\* The 'currentConnection' slot once AsyncStorage.removeItem has settled; a
\* rejection is logged by the catch and nothing else is done.
DescriptorAfterRemove(removeOk) == IF removeOk THEN NoConn ELSE storedConnection

\* The "disconnected" notification disconnect() sends without awaiting it.
DisconnectNotice ==
  IF fbEnabled /\ currentSessionId # null /\ currentUserName # null
  THEN {SystemEvent(currentSessionId, "disconnected", currentUserName, now)}
  ELSE {}

\* disconnect() itself, whoever calls it.  flagOk, removeOk and nameOk say
\* whether the write of the ended flag, the removal of 'currentConnection' and
\* the store update succeed; each rejection is swallowed by its catch.
DisconnectBody(flagOk, removeOk, nameOk) ==
  /\ pendingSys' = pendingSys \cup DisconnectNotice
  /\ dbSessions' =
       IF currentSessionId # null /\ currentUserName # null /\ nameOk
       THEN UpdateSessionParticipantName(dbSessions, currentSessionId, currentUserName)
       ELSE dbSessions
  /\ sessionEnded' =
       IF currentSessionId # null /\ flagOk
       THEN FlagSession(sessionEnded, currentSessionId) ELSE sessionEnded
  /\ IF fbEnabled
     THEN /\ fbConnected' = FALSE /\ fbSubs' = {} /\ firebaseSubscribedForSession' = null
          /\ subCount' = [s \in Sessions |-> 0]
     ELSE UNCHANGED <<fbConnected, fbSubs, subCount, firebaseSubscribedForSession>>
  /\ currentSessionId' = null /\ currentUserName' = null
  /\ NotifyConnectionListeners(FALSE)
  /\ storedConnection' = DescriptorAfterRemove(removeOk)
  \* onDisconnect(): the chat screen, if it was the caller, unmounts
  /\ chatSession' = null /\ messages' = <<>> /\ peerDisconnected' = FALSE
  /\ sendMounted' = FALSE /\ lastAlert' = "none"
  /\ ops' = ops + 1
  /\ UNCHANGED <<connVars, lastFanout, envVars, channel, delivered, dbMessages,
                 isInitialized, notification, sendPc, sendMsg, msgData, sendResult, now,
                 discProcessed, net>>

\* disconnect(), called from the chat screen (which then closes) or from the QR
\* generator once its attempt has settled.
Disconnect(flagOk, removeOk, nameOk) ==
  /\ isInitialized /\ connPc = "idle" /\ ops < MaxOps
  /\ chatSession # null \/ (connOrigin = "host" /\ currentSessionId # null)
  /\ DisconnectBody(flagOk, removeOk, nameOk)

\* ------------------------------------------------------ HomeScreen, chat
\* The chat screen is opened: "Open Chat" of the QR generator
\* (handleConnectionEstablished without a participant name), a session picked
\* from the history, or the notification pressed.
OpenChat(s, from) ==
  /\ isInitialized /\ chatSession = null /\ ops < MaxOps
  /\ CASE from = "generator" ->
            /\ s = currentSessionId /\ connOrigin = "host"
            /\ dbSessions' =
                 InitializeChatSessions(HandleConnectionEstablished(dbSessions, s, ""), s)
            /\ UNCHANGED notification
       [] from = "history" ->
            /\ s \in GetChatSessions(dbSessions)
            /\ dbSessions' = InitializeChatSessions(dbSessions, s)
            /\ UNCHANGED notification
       [] from = "notification" ->
            /\ s = notification
            /\ dbSessions' = InitializeChatSessions(dbSessions, s)
            /\ notification' = null
  /\ chatSession' = s
  /\ messages' = GetMessages(dbMessages, s)
  /\ peerDisconnected' = (s \in sessionEnded)
  /\ ops' = ops + 1
  /\ UNCHANGED <<msVars, connVars, lastConnNotify, lastFanout, envVars, fbVars,
                 storedConnection, sessionEnded, dbMessages, isInitialized, lastAlert,
                 sendVars, now, discProcessed, net>>

\* onBack: the chat screen unmounts and its listeners are removed.
CloseChat ==
  /\ isInitialized /\ chatSession # null /\ ops < MaxOps
  /\ chatSession' = null /\ messages' = <<>> /\ peerDisconnected' = FALSE
  /\ sendMounted' = FALSE /\ lastAlert' = "none"
  /\ ops' = ops + 1
  /\ UNCHANGED <<msVars, connVars, lastConnNotify, lastFanout, envVars, fbVars,
                 storedConnection, sessionEnded, dbVars, isInitialized, notification,
                 sendPc, sendMsg, msgData, sendResult, now, discProcessed, net>>

\* ChatInterface.sendMessage up to its first await: the guards, the optimistic
\* append, and the call of saveMessage.
ChatSendStart ==
  /\ isInitialized /\ chatSession # null /\ sendPc = "idle" /\ ops < MaxOps
  /\ ops' = ops + 1
  /\ IF peerDisconnected
     THEN /\ lastAlert' = "sessionEnded"
          /\ UNCHANGED <<messages, sendVars>>
     ELSE IF ~IsConnected
     THEN /\ lastAlert' = "notConnected"
          /\ UNCHANGED <<messages, sendVars>>
     ELSE /\ sendMsg' = Row(chatSession, currentUserName, "text", now, TRUE)
          /\ messages' = Append(messages, sendMsg')
          /\ sendPc' = "save" /\ sendMounted' = TRUE
          /\ msgData' = NoEvent /\ sendResult' = "none" /\ lastAlert' = "none"
  /\ UNCHANGED <<msVars, connVars, lastConnNotify, lastFanout, envVars, fbVars,
                 storedConnection, sessionEnded, dbVars, isInitialized, notification,
                 chatSession, peerDisconnected, now, discProcessed, net>>

\* The catch of ChatInterface.sendMessage: an alert, and the messages stamped
\* with the present time are dropped from the view.
ChatSendCatch ==
  /\ lastAlert' = "sendFailed"
  /\ messages' = IF sendMounted
                 THEN SelectSeq(messages, LAMBDA m : m.timestamp # now)
                 ELSE messages
  /\ sendPc' = "idle" /\ sendMsg' = NoRow

\* A send that goes on whether or not the row was inserted.
AfterSaveUnchecked(ok) == "touch"

\* Where the send goes once saveMessage has settled: a rejection is thrown to
\* the catch.
AfterSave(ok) == IF ok THEN "touch" ELSE "idle"

\* saveMessage settles; updateSessionLastMessage is called next.
ChatSendSaved(ok) ==
  /\ sendPc = "save"
  /\ IF AfterSave(ok) = "touch"
     THEN /\ dbMessages' = (IF ok THEN SaveMessage(dbMessages, sendMsg) ELSE dbMessages)
          /\ sendPc' = "touch"
          /\ UNCHANGED <<messages, lastAlert, sendMsg>>
     ELSE /\ ChatSendCatch
          /\ UNCHANGED dbMessages
  /\ UNCHANGED <<msVars, connVars, lastConnNotify, lastFanout, envVars, fbVars,
                 storedConnection, sessionEnded, dbSessions, isInitialized, notification,
                 chatSession, peerDisconnected, sendMounted, msgData, sendResult, now,
                 discProcessed, ops, net>>

\* updateSessionLastMessage settles; MessagingService.sendMessage runs up to its
\* await: without session or user name it returns false at once, otherwise it
\* stamps the event and starts the publish (or the loopback delay).
ChatSendTouched(ok) ==
  /\ sendPc = "touch"
  /\ IF ~ok
     THEN /\ ChatSendCatch
          /\ UNCHANGED <<dbSessions, msgData, sendResult>>
     ELSE /\ dbSessions' = UpdateSessionLastMessage(dbSessions, sendMsg.sessionId, now)
          /\ UNCHANGED <<messages, lastAlert>>
          /\ IF currentSessionId = null \/ currentUserName = null
             THEN /\ sendResult' = "false" /\ sendPc' = "idle" /\ sendMsg' = NoRow
                  /\ UNCHANGED msgData
             ELSE /\ msgData' = UserEvent(currentSessionId, currentUserName, now)
                  /\ sendPc' = "publishing"
                  /\ UNCHANGED <<sendResult, sendMsg>>
  /\ UNCHANGED <<msVars, connVars, lastConnNotify, lastFanout, envVars, fbVars,
                 storedConnection, sessionEnded, dbMessages, isInitialized, notification,
                 chatSession, peerDisconnected, sendMounted, now, discProcessed, ops, net>>

\* A sendMessage without its catch: a rejected publish reaches the caller.
SendOutcomeUncaught(published) == IF published THEN "true" ELSE "threw"

\* What MessagingService.sendMessage returns once the publish has settled: the
\* catch turns a rejected publish into false.
SendOutcome(published) == IF published THEN "true" ELSE "false"

\* FirebaseService.sendMessage settles, or the loopback delay of processMessage
\* is over and the event is handed to the local listeners.
ChatSendPublished(ok) ==
  /\ sendPc = "publishing"
  /\ IF fbEnabled
     THEN /\ channel' = IF ok
                        THEN channel \cup {UserEvent(msgData.sessionId, msgData.sender, now)}
                        ELSE channel
          /\ sendResult' = SendOutcome(ok)
          /\ UNCHANGED <<lastFanout, notification, messages, peerDisconnected,
                         sessionEnded, dbVars, discProcessed>>
     ELSE /\ ok
          /\ NotifyMessageListeners(msgData)
          /\ sendResult' = SendOutcome(TRUE)
          /\ UNCHANGED channel
  /\ sendPc' = "idle" /\ sendMsg' = NoRow /\ msgData' = NoEvent
  /\ UNCHANGED <<msVars, connVars, lastConnNotify, envVars, fbConnected, fbSubs, subCount,
                 delivered, pendingSys, storedConnection, isInitialized, chatSession,
                 lastAlert, sendMounted, now, ops, net>>

\* ------------------------------------------------------ channel, process
\* The peer publishes a user message or a system event on a session's channel.
PeerPublish(e) ==
  /\ e \in PeerEvents \ channel
  /\ e.timestamp = now /\ ~Fresh(e.sessionId)
  /\ net < MaxNet /\ net' = net + 1
  /\ channel' = channel \cup {e}
  /\ UNCHANGED <<msVars, connVars, lastConnNotify, lastFanout, envVars, fbConnected,
                 fbSubs, subCount, delivered, pendingSys, storedConnection, sessionEnded, dbVars,
                 isInitialized, notification, chatVars, lastAlert, sendVars, now,
                 discProcessed, ops>>

\* The subscription callback of establishConnection is handed an event of a
\* subscribed session for the first time.
FirstDeliver(e) ==
  /\ e \in channel \ delivered /\ e.sessionId \in fbSubs
  /\ delivered' = delivered \cup {e}
  /\ NotifyMessageListeners(e)
  /\ UNCHANGED <<msVars, connVars, lastConnNotify, envVars, fbConnected, fbSubs, subCount,
                 channel, pendingSys, storedConnection, isInitialized, chatSession,
                 lastAlert, sendVars, now, ops, net>>

\* The callback is handed an event it was handed before.
Redeliver(e) ==
  /\ e \in channel \cap delivered /\ e.sessionId \in fbSubs
  /\ net < MaxNet /\ net' = net + 1
  /\ NotifyMessageListeners(e)
  /\ UNCHANGED <<msVars, connVars, lastConnNotify, envVars, fbVars, storedConnection,
                 isInitialized, chatSession, lastAlert, sendVars, now, ops>>

\* A system event sent earlier reaches the channel, or its publish is rejected.
SystemEventSettles(e, ok) ==
  /\ e \in pendingSys
  /\ pendingSys' = pendingSys \ {e}
  /\ channel' = (IF ok THEN channel \cup {e} ELSE channel)
  /\ UNCHANGED <<msVars, connVars, lastConnNotify, lastFanout, envVars, fbConnected,
                 fbSubs, subCount, delivered, storedConnection, sessionEnded, dbVars,
                 isInitialized, notification, chatVars, lastAlert, sendVars, now,
                 discProcessed, ops, net>>

\* The process is killed and started again: memory is lost, AsyncStorage, the
\* store and the channel are kept.
Restart ==
  /\ ops < MaxOps /\ ops' = ops + 1
  /\ currentSessionId' = null /\ currentUserName' = null
  /\ firebaseSubscribedForSession' = null
  /\ connPc' = "idle" /\ connInfo' = NoConn /\ connOrigin' = "none"
  /\ connResult' = "none" /\ lastConnNotify' = "none" /\ lastFanout' = NoFanout
  /\ fbConnected' = FALSE /\ fbSubs' = {} /\ pendingSys' = {}
  /\ subCount' = [s \in Sessions |-> 0]
  /\ isInitialized' = FALSE /\ notification' = null
  /\ chatSession' = null /\ messages' = <<>> /\ peerDisconnected' = FALSE
  /\ lastAlert' = "none"
  /\ sendPc' = "idle" /\ sendMsg' = NoRow /\ sendMounted' = FALSE
  /\ msgData' = NoEvent /\ sendResult' = "none" /\ timedOut' = FALSE
  /\ UNCHANGED <<cfgVars, channel, delivered, storedConnection, sessionEnded, dbVars,
                 now, discProcessed, net>>

\* Time passes (a step of the environment).
Tick ==
  /\ now < MaxClock /\ net < MaxNet
  /\ now' = now + 1 /\ net' = net + 1
  /\ UNCHANGED <<msVars, connVars, lastConnNotify, lastFanout, envVars, fbVars,
                 storedConnection, sessionEnded, dbVars, isInitialized, notification,
                 chatVars, lastAlert, sendVars, discProcessed, ops>>

Next ==
  \/ \E readable \in BOOLEAN : Boot(readable)
  \/ \E s \in Sessions, n \in LocalNames, origin \in {"host", "join"} : Connect(s, n, origin)
  \/ \E ok \in BOOLEAN : EstablishPersisted(ok)
  \/ \E ok, subOk \in BOOLEAN : EstablishConnected(ok, subOk)
  \/ \E flagOk, removeOk, nameOk \in BOOLEAN : Disconnect(flagOk, removeOk, nameOk)
  \/ \E s \in Sessions, from \in {"generator", "history", "notification"} : OpenChat(s, from)
  \/ CloseChat
  \/ ChatSendStart
  \/ \E ok \in BOOLEAN : ChatSendSaved(ok)
  \/ \E ok \in BOOLEAN : ChatSendTouched(ok)
  \/ \E ok \in BOOLEAN : ChatSendPublished(ok)
  \/ \E e \in PeerEvents : PeerPublish(e)
  \/ \E e \in AllEvents : FirstDeliver(e)
  \/ \E e \in AllEvents : Redeliver(e)
  \/ \E e \in AllEvents, ok \in BOOLEAN : SystemEventSettles(e, ok)
  \/ Restart
  \/ Tick

Spec == Init /\ [][Next]_vars

\* ------------------------------------------------- listener registries
MaxListeners == 2   \* listeners a registry holds
Listeners == {"l1", "l2"}

\* addMessageListener / addConnectionListener: push.
AddListener(registry, l) == Append(registry, l)

\* removeMessageListener / removeConnectionListener: filter by reference.
RemoveListener(registry, l) == SelectSeq(registry, LAMBDA x : x # l)

\* The first position of registry holding a listener of throws (its length if none).
FirstThrow(registry, throws) ==
  IF \E i \in DOMAIN registry : registry[i] \in throws
  THEN CHOOSE i \in DOMAIN registry :
         /\ registry[i] \in throws
         /\ \A j \in 1..(i - 1) : registry[j] \notin throws
  ELSE Len(registry)

\* A loop whose first raising listener ends it.
InvokedUntilThrow(registry, throws) == SubSeq(registry, 1, FirstThrow(registry, throws))

\* The listeners registry.forEach invokes: the try/catch around each call keeps
\* the loop going past a listener that raises.
Invoked(registry, throws) == SubSeq(registry, 1, Len(registry))

\* The listeners whose error the catch logs.
Logged(registry, throws) == {registry[i] : i \in DOMAIN registry} \cap throws

AddMessageListener(l) ==
  /\ Len(messageListeners) < MaxListeners
  /\ messageListeners' = AddListener(messageListeners, l)
  /\ UNCHANGED <<connectionListeners, called, logged>>

RemoveMessageListener(l) ==
  /\ \E i \in DOMAIN messageListeners : messageListeners[i] = l
  /\ messageListeners' = RemoveListener(messageListeners, l)
  /\ UNCHANGED <<connectionListeners, called, logged>>

AddConnectionListener(l) ==
  /\ Len(connectionListeners) < MaxListeners
  /\ connectionListeners' = AddListener(connectionListeners, l)
  /\ UNCHANGED <<messageListeners, called, logged>>

RemoveConnectionListener(l) ==
  /\ \E i \in DOMAIN connectionListeners : connectionListeners[i] = l
  /\ connectionListeners' = RemoveListener(connectionListeners, l)
  /\ UNCHANGED <<messageListeners, called, logged>>

\* A registry operation of a mounting or unmounting component.
Register ==
  /\ \E l \in Listeners :
       \/ AddMessageListener(l) \/ RemoveMessageListener(l)
       \/ AddConnectionListener(l) \/ RemoveConnectionListener(l)
  /\ UNCHANGED <<currentSessionId, currentUserName, firebaseSubscribedForSession,
                 connPc, connInfo, connOrigin, connResult, lastConnNotify, lastFanout,
                 fbEnabled, fbConnected, fbSubs, subCount, channel, delivered, pendingSys,
                 storedConnection, sessionEnded, dbMessages, dbSessions,
                 isInitialized, notification, chatSession, messages, peerDisconnected,
                 lastAlert, sendPc, sendMsg, sendMounted, msgData, sendResult,
                 now, discProcessed, ops, net, timedOut, rowVars, initVars, scanVars>>

\* notifyMessageListeners(e), the subscription callback's hand-over, at the
\* grain of single listeners: those of throws raise when called.
FanOutMessage(e, throws) ==
  /\ e \in channel /\ e.sessionId \in fbSubs
  /\ net < MaxNet /\ net' = net + 1
  /\ called' = Invoked(messageListeners, throws)
  /\ logged' = Logged(messageListeners, throws)
  /\ delivered' = delivered \cup {e}
  /\ dbMessages' =
       IF PersistsIncoming(e)
       THEN SaveMessage(dbMessages, Row(e.sessionId, e.sender, e.content, e.timestamp, FALSE))
       ELSE dbMessages
  /\ dbSessions' = IF PersistsIncoming(e) THEN NotifySessions(dbSessions, e) ELSE dbSessions
  /\ UNCHANGED <<currentSessionId, currentUserName, firebaseSubscribedForSession,
                 connPc, connInfo, connOrigin, connResult, lastConnNotify, lastFanout,
                 fbEnabled, fbConnected, fbSubs, subCount, channel, pendingSys,
                 storedConnection, sessionEnded, isInitialized, notification, chatSession,
                 messages, peerDisconnected, lastAlert, sendPc, sendMsg, sendMounted,
                 msgData, sendResult, now, discProcessed, ops,
                 messageListeners, connectionListeners, timedOut, rowVars, initVars, scanVars>>

\* notifyConnectionListeners(connected) at the grain of single listeners.
FanOutConnection(connected, throws) ==
  /\ connPc = "idle" /\ connResult # "none"
  /\ connected = (lastConnNotify = "true")
  /\ called' = Invoked(connectionListeners, throws)
  /\ logged' = Logged(connectionListeners, throws)
  /\ UNCHANGED <<currentSessionId, currentUserName, firebaseSubscribedForSession,
                 connPc, connInfo, connOrigin, connResult, lastConnNotify, lastFanout,
                 fbEnabled, fbConnected, fbSubs, subCount, channel, delivered, pendingSys,
                 storedConnection, sessionEnded, dbMessages, dbSessions,
                 isInitialized, notification, chatSession, messages, peerDisconnected,
                 lastAlert, sendPc, sendMsg, sendMounted, msgData, sendResult,
                 now, discProcessed, ops, net, messageListeners, connectionListeners,
                 timedOut, rowVars, initVars, scanVars>>

\* The host connects; peers publish; the registries change; events are fanned out.
ListenerNext ==
  \/ \E readable \in BOOLEAN : Boot(readable)
  \/ \E n \in LocalNames : Connect("s1", n, "host")
  \/ \E ok \in BOOLEAN : EstablishPersisted(ok)
  \/ \E ok, subOk \in BOOLEAN : EstablishConnected(ok, subOk)
  \/ \E e \in PeerEvents : PeerPublish(e)
  \/ Register
  \/ \E e \in PeerEvents, throws \in SUBSET Listeners : FanOutMessage(e, throws)
  \/ \E c \in BOOLEAN, throws \in SUBSET Listeners : FanOutConnection(c, throws)

ListenerSpec == Init /\ [][ListenerNext]_vars

\* --------------------------------------------------- the Android timeout
\* On Android initializeConnection races establishConnection against a timer:
\* when the timer wins, the catch notifies false and initializeConnection
\* returns false to its caller, while establishConnection, which nothing
\* cancels, runs on.
EstablishTimeout ==
  /\ connPc \in {"persist", "connect"} /\ ~timedOut
  /\ timedOut' = TRUE
  /\ NotifyConnectionListeners(FALSE)
  /\ connResult' = "false"
  /\ isInitialized' = (isInitialized \/ connOrigin = "restore")
  /\ UNCHANGED <<msVars, connPc, connInfo, connOrigin, lastFanout, cfgVars, fbVars,
                 storedConnection, sessionEnded, dbVars, notification, chatVars,
                 lastAlert, sendVars, now, discProcessed, ops, net>>

\* The manager on Android (Platform.OS === 'android').
AndroidNext ==
  \/ \E readable \in BOOLEAN : Boot(readable)
  \/ \E s \in Sessions, n \in LocalNames, origin \in {"host", "join"} : Connect(s, n, origin)
  \/ \E ok \in BOOLEAN : EstablishPersisted(ok)
  \/ \E ok, subOk \in BOOLEAN : EstablishConnected(ok, subOk)
  \/ EstablishTimeout
  \/ \E flagOk, removeOk, nameOk \in BOOLEAN : Disconnect(flagOk, removeOk, nameOk)
  \/ \E s \in Sessions, from \in {"generator", "history", "notification"} : OpenChat(s, from)
  \/ CloseChat
  \/ \E e \in PeerEvents : PeerPublish(e)
  \/ \E e \in AllEvents : FirstDeliver(e)
  \/ \E e \in AllEvents, ok \in BOOLEAN : SystemEventSettles(e, ok)
  \/ Restart

AndroidSpec == Init /\ [][AndroidNext]_vars

\* ----------------------------------------- DatabaseService, row by row
\* A row of chat_sessions.
TableRow(s, p, c, l) ==
  [sessionId |-> s, participantName |-> p, createdAt |-> c, lastMessageAt |-> l]

\* An INSERT that ignores the rows the table holds.
PlainInsert(rows, row) == Append(rows, row)

\* INSERT OR REPLACE INTO chat_sessions, sessionId being UNIQUE: the row in
\* conflict is deleted and the new row inserted.
InsertOrReplace(rows, row) ==
  Append(SelectSeq(rows, LAMBDA r : r.sessionId # row.sessionId), row)

\* UPDATE chat_sessions SET lastMessageAt = ? WHERE sessionId = ?
TouchRows(rows, s, t) ==
  [i \in DOMAIN rows |->
     IF rows[i].sessionId = s THEN [rows[i] EXCEPT !.lastMessageAt = t] ELSE rows[i]]

\* UPDATE chat_sessions SET participantName = ? WHERE sessionId = ?
RenameRows(rows, s, n) ==
  [i \in DOMAIN rows |->
     IF rows[i].sessionId = s THEN [rows[i] EXCEPT !.participantName = n] ELSE rows[i]]

\* DELETE FROM chat_sessions WHERE sessionId = ?
DeleteRows(rows, s) == SelectSeq(rows, LAMBDA r : r.sessionId # s)

\* The same statement on the table seen as a map from session ids.
DeleteSession(tbl, s) == [x \in DOMAIN tbl \ {s} |-> tbl[x]]

\* DELETE FROM messages WHERE sessionId = ?
DeleteMessages(rows, s) == SelectSeq(rows, LAMBDA r : r.sessionId # s)

\* The messages the callers of the sources save: the user's own, stamped with
\* the present time, and incoming ones, stamped by their sender.
SavedMessages ==
  {Row(s, n, "text", now, TRUE) : s \in Sessions, n \in LocalNames}
  \cup {Row(s, n, "text", t, FALSE) : s \in Sessions, n \in PeerNames, t \in 1..MaxClock}

\* What a store operation leaves alone.
nonStoreVars ==
  <<msVars, connVars, lastConnNotify, lastFanout, fbEnabled, fbVars, storedConnection,
    sessionEnded, isInitialized, notification, chatVars, lastAlert, sendVars, now,
    discProcessed, net, lsnVars, timedOut, initVars, scanVars>>

\* saveMessage(m)
StoreSaveMessage(m) ==
  /\ ops < MaxOps /\ ops' = ops + 1
  /\ dbMessages' = SaveMessage(dbMessages, m)
  /\ UNCHANGED <<dbSessions, sessionRows, deletePc, nonStoreVars>>

\* saveChatSession(session)
StoreSaveChatSession(s, p) ==
  /\ ops < MaxOps /\ ops' = ops + 1
  /\ dbSessions' = SaveChatSession(dbSessions, s, SessionRow(p, now, now))
  /\ sessionRows' = InsertOrReplace(sessionRows, TableRow(s, p, now, now))
  /\ UNCHANGED <<dbMessages, deletePc, nonStoreVars>>

\* updateSessionLastMessage(sessionId, timestamp)
StoreUpdateSessionLastMessage(s, t) ==
  /\ ops < MaxOps /\ ops' = ops + 1
  /\ dbSessions' = UpdateSessionLastMessage(dbSessions, s, t)
  /\ sessionRows' = TouchRows(sessionRows, s, t)
  /\ UNCHANGED <<dbMessages, deletePc, nonStoreVars>>

\* updateSessionParticipantName(sessionId, participantName)
StoreUpdateSessionParticipantName(s, p) ==
  /\ ops < MaxOps /\ ops' = ops + 1
  /\ dbSessions' = UpdateSessionParticipantName(dbSessions, s, p)
  /\ sessionRows' = RenameRows(sessionRows, s, p)
  /\ UNCHANGED <<dbMessages, deletePc, nonStoreVars>>

\* deleteChatSession(s) up to its second statement: the messages of s are
\* deleted; a rejection is thrown to the caller.
StoreDeleteMessages(s, ok) ==
  /\ deletePc = null /\ ops < MaxOps /\ ops' = ops + 1
  /\ dbMessages' = (IF ok THEN DeleteMessages(dbMessages, s) ELSE dbMessages)
  /\ deletePc' = (IF ok THEN s ELSE null)
  /\ UNCHANGED <<dbSessions, sessionRows, nonStoreVars>>

\* deleteChatSession(s) from its second statement: the session row is deleted
\* and the call returns; a rejection is thrown to the caller.
StoreDeleteSession(ok) ==
  /\ deletePc # null
  /\ dbSessions' = (IF ok THEN DeleteSession(dbSessions, deletePc) ELSE dbSessions)
  /\ sessionRows' = (IF ok THEN DeleteRows(sessionRows, deletePc) ELSE sessionRows)
  /\ deletePc' = null
  /\ UNCHANGED <<dbMessages, ops, nonStoreVars>>

\* Any sequence of store operations, as time passes.
StoreNext ==
  \/ \E m \in SavedMessages : StoreSaveMessage(m)
  \/ \E s \in Sessions, p \in LocalNames \cup PeerNames : StoreSaveChatSession(s, p)
  \/ \E s \in Sessions, t \in 1..MaxClock : StoreUpdateSessionLastMessage(s, t)
  \/ \E s \in Sessions, p \in LocalNames \cup PeerNames : StoreUpdateSessionParticipantName(s, p)
  \/ \E s \in Sessions, ok \in BOOLEAN : StoreDeleteMessages(s, ok)
  \/ \E ok \in BOOLEAN : StoreDeleteSession(ok)
  \/ Tick

StoreSpec == Init /\ [][StoreNext]_vars

\* ------------------------------------------- DatabaseService.initialize
\* What the store's initialization leaves alone.
nonInitVars ==
  <<msVars, connVars, lastConnNotify, lastFanout, fbEnabled, fbVars, storedConnection,
    sessionEnded, dbVars, isInitialized, notification, chatVars, lastAlert, sendVars,
    now, discProcessed, ops, net, lsnVars, timedOut, rowVars, scanVars>>

\* An initialize() that never looks for an initialization in flight.
NeverJoins(promise) == FALSE

\* initialize(): if (this.initializePromise) return this.initializePromise.
JoinsInFlight(promise) == promise # "none"

\* A store operation is called: ensureInitialized() goes on at once when the
\* flag is set; otherwise initialize() joins the promise the field holds
\* (pending or settled) or starts an initialization of its own.
OpCall(c) ==
  /\ opPc[c] = "idle"
  /\ IF isInitializedFlag
     THEN /\ opPc' = [opPc EXCEPT ![c] = "run"]
          /\ UNCHANGED <<initializePromise, initPc, running>>
     ELSE IF JoinsInFlight(initializePromise)
     THEN /\ opPc' = [opPc EXCEPT ![c] =
                        CASE initializePromise = "resolved" -> "gotOk"
                          [] initializePromise = "rejected" -> "gotErr"
                          [] OTHER -> "joined"]
          /\ UNCHANGED <<initializePromise, initPc, running>>
     ELSE /\ initializePromise' = "pending" /\ initPc' = "open"
          /\ running' = running + 1
          /\ opPc' = [opPc EXCEPT ![c] = "starter"]
  /\ UNCHANGED <<isInitializedFlag, db, nonInitVars>>

\* The promise settles: whoever awaits it is handed its outcome.
Settle(outcome) ==
  /\ initializePromise' = outcome /\ initPc' = "none" /\ running' = running - 1
  /\ opPc' = [c \in Callers |->
                CASE opPc[c] = "joined" -> IF outcome = "resolved" THEN "gotOk" ELSE "gotErr"
                  [] opPc[c] = "starter" ->
                       IF outcome = "resolved" THEN "starterOk" ELSE "starterErr"
                  [] OTHER -> opPc[c]]

\* The initialization in flight moves on: openDatabaseAsync, CREATE TABLE
\* chat_sessions, CREATE TABLE messages, then the flag; a rejection of any of
\* them rejects the promise.
InitStep(ok) ==
  /\ initPc # "none"
  /\ IF ~ok
     THEN /\ Settle("rejected")
          /\ UNCHANGED <<isInitializedFlag, db>>
     ELSE CASE initPc = "open" ->
                 /\ db' = "open" /\ initPc' = "sessions"
                 /\ UNCHANGED <<isInitializedFlag, initializePromise, running, opPc>>
            [] initPc = "sessions" ->
                 /\ initPc' = "messages"
                 /\ UNCHANGED <<isInitializedFlag, initializePromise, running, opPc, db>>
            [] OTHER ->
                 /\ isInitializedFlag' = TRUE
                 /\ Settle("resolved")
                 /\ UNCHANGED db
  /\ UNCHANGED nonInitVars

\* A caller goes on after the promise: the one that started the initialization
\* clears the field (after its await, or in its catch, which rethrows); a
\* rejection fails the operation.
OpResume(c) ==
  /\ opPc[c] \in {"gotOk", "gotErr", "starterOk", "starterErr"}
  /\ opPc' = [opPc EXCEPT ![c] = IF opPc[c] \in {"gotOk", "starterOk"} THEN "run" ELSE "failed"]
  /\ initializePromise' =
       (IF opPc[c] \in {"starterOk", "starterErr"} THEN "none" ELSE initializePromise)
  /\ UNCHANGED <<isInitializedFlag, db, initPc, running, nonInitVars>>

\* Past ensureInitialized(): without a database handle the operation throws,
\* with one it runs its statement.
OpRun(c, ok) ==
  /\ opPc[c] = "run"
  /\ opPc' = [opPc EXCEPT ![c] = IF db # null /\ ok THEN "done" ELSE "failed"]
  /\ UNCHANGED <<isInitializedFlag, initializePromise, db, initPc, running, nonInitVars>>

\* The operation's promise has settled; its caller may call again.
OpReturn(c) ==
  /\ opPc[c] \in {"done", "failed"}
  /\ opPc' = [opPc EXCEPT ![c] = "idle"]
  /\ UNCHANGED <<isInitializedFlag, initializePromise, db, initPc, running, nonInitVars>>

\* Store operations called while the store initializes.
InitNext ==
  \/ \E c \in Callers : OpCall(c)
  \/ \E ok \in BOOLEAN : InitStep(ok)
  \/ \E c \in Callers : OpResume(c)
  \/ \E c \in Callers, ok \in BOOLEAN : OpRun(c, ok)
  \/ \E c \in Callers : OpReturn(c)

InitSpec == Init /\ [][InitNext]_vars

\* --------------------------------------------------------------- QRScanner
\* What a camera frame or the manual field can hold: a token as the Session
\* Codec sees it.  parseable says whether the string parses at all; a missing
\* field is the empty string.
Token(parseable, s, n) == [parseable |-> parseable, sessionId |-> s, userName |-> n]

Tokens ==
  {Token(TRUE, s, n) : s \in Sessions \cup {""}, n \in PeerNames \cup {""}}
  \cup {Token(FALSE, "", "")}

\* The manual field left empty (or blank).
EmptyCode == Token(FALSE, "empty", "")

\* A decode that returns whatever fields it could read.
ParseLenient(t) ==
  IF t.parseable THEN ConnInfo(t.sessionId, t.userName) ELSE NoConn

\* QRCodeService.parseQRCodeData: the descriptor of a token that parses and
\* holds every required field, and the explicit invalid result (null, here
\* NoConn) for anything else.
ParseQRCodeData(t) ==
  IF t.parseable /\ t.sessionId # "" /\ t.userName # ""
  THEN ConnInfo(t.sessionId, t.userName) ELSE NoConn

\* The scanner as mounted.
ScannerMounted ==
  /\ scanning' = FALSE /\ isProcessingScan' = FALSE /\ showManualInput' = FALSE
  /\ showNameInput' = FALSE /\ scannedData' = NoConn /\ isConnecting' = FALSE
  /\ scanAlert' = "none"

\* What the scanner's own handlers leave alone.
nonScanVars ==
  <<msVars, connVars, lastConnNotify, lastFanout, fbEnabled, lsnVars, rowVars, initVars,
    timedOut, fbVars, storedConnection, sessionEnded, dbVars, isInitialized, notification,
    chatVars, lastAlert, sendVars, now, discProcessed, ops, net>>

\* The base screen is shown with nothing over it.
ScannerIdle ==
  /\ isInitialized /\ chatSession = null /\ scanAlert = "none"
  /\ ~scanning /\ ~showManualInput /\ ~showNameInput

\* "Start Scanning", and "Try Again" of the invalid-code alert.
StartScanning ==
  /\ isInitialized /\ chatSession = null
  /\ ScannerIdle \/ scanAlert = "invalid"
  /\ isProcessingScan' = FALSE /\ scanning' = TRUE /\ scanAlert' = "none"
  /\ UNCHANGED <<showManualInput, showNameInput, scannedData, isConnecting, nonScanVars>>

\* "Cancel" over the camera view.
CancelScanning ==
  /\ scanning /\ scanAlert = "none"
  /\ scanning' = FALSE /\ isProcessingScan' = FALSE
  /\ UNCHANGED <<showManualInput, showNameInput, scannedData, isConnecting, scanAlert,
                 nonScanVars>>

\* processQRCode(qrData): an invalid result raises the alert that offers
\* "Try Again" and nothing else is done; a descriptor is kept and the name
\* prompt is opened.
ProcessQRCode(t) ==
  IF ParseQRCodeData(t) = NoConn
  THEN /\ scanAlert' = "invalid"
       /\ UNCHANGED <<scannedData, showNameInput>>
  ELSE /\ scannedData' = ParseQRCodeData(t)
       /\ showNameInput' = TRUE
       /\ UNCHANGED scanAlert

\* handleBarcodeScanned: ignored unless the camera view is active and no scan
\* is being processed.
HandleBarcodeScanned(t) ==
  /\ scanning /\ ~isProcessingScan /\ scanAlert = "none"
  /\ isProcessingScan' = TRUE /\ scanning' = FALSE
  /\ ProcessQRCode(t)
  /\ UNCHANGED <<showManualInput, isConnecting, nonScanVars>>

\* "Enter Code Manually".
OpenManualInput ==
  /\ ScannerIdle
  /\ showManualInput' = TRUE
  /\ UNCHANGED <<scanning, isProcessingScan, showNameInput, scannedData, isConnecting,
                 scanAlert, nonScanVars>>

\* "Cancel" of the manual prompt, or the back button.
CloseManualInput ==
  /\ showManualInput /\ scanAlert = "none"
  /\ showManualInput' = FALSE
  /\ UNCHANGED <<scanning, isProcessingScan, showNameInput, scannedData, isConnecting,
                 scanAlert, nonScanVars>>

\* processManualCode: a blank field raises an error alert and the prompt stays;
\* anything else goes to processQRCode and the prompt closes.
ProcessManualCode(code) ==
  /\ showManualInput /\ scanAlert = "none"
  /\ IF code = EmptyCode
     THEN /\ scanAlert' = "error"
          /\ UNCHANGED <<scannedData, showNameInput, showManualInput>>
     ELSE /\ ProcessQRCode(code)
          /\ showManualInput' = FALSE
  /\ UNCHANGED <<scanning, isProcessingScan, isConnecting, nonScanVars>>

\* An alert is dismissed ("Cancel", "OK").
DismissScanAlert ==
  /\ scanAlert # "none"
  /\ scanAlert' = "none"
  /\ showNameInput' = (IF scanAlert = "connectionFailed" THEN FALSE ELSE showNameInput)
  /\ UNCHANGED <<scanning, isProcessingScan, showManualInput, scannedData, isConnecting,
                 nonScanVars>>

\* The name prompt is closed: "Cancel" forgets the descriptor, the back button
\* keeps it.
CloseNameInput(cancel) ==
  /\ showNameInput /\ ~isConnecting /\ scanAlert = "none"
  /\ showNameInput' = FALSE
  /\ scannedData' = (IF cancel THEN NoConn ELSE scannedData)
  /\ UNCHANGED <<scanning, isProcessingScan, showManualInput, isConnecting, scanAlert,
                 nonScanVars>>

\* connectToChat up to its await ("Join Chat", or "Retry" of the
\* connection-failed alert): without a name or a descriptor an error alert;
\* otherwise initializeConnection is called with the session of the descriptor.
ConnectToChat(n) ==
  /\ isInitialized /\ chatSession = null /\ connPc = "idle" /\ showNameInput /\ ~isConnecting
  /\ scanAlert \in {"none", "connectionFailed"}
  /\ IF n = "" \/ scannedData = NoConn
     THEN /\ scanAlert' = "error"
          /\ UNCHANGED <<isConnecting, msVars, connVars, timedOut, ops>>
     ELSE /\ ops < MaxOps /\ ops' = ops + 1
          /\ EstablishBegin(ConnInfo(scannedData.sessionId, n), "join")
          /\ isConnecting' = TRUE /\ scanAlert' = "none"
          /\ UNCHANGED firebaseSubscribedForSession
  /\ UNCHANGED <<scanning, isProcessingScan, showManualInput, showNameInput, scannedData,
                 lastConnNotify, lastFanout, fbEnabled, lsnVars, rowVars, initVars, fbVars,
                 storedConnection, sessionEnded, dbVars, isInitialized, notification,
                 chatVars, lastAlert, sendVars, now, discProcessed, net>>

\* connectToChat after its await: on true the chat is open and the scanner is
\* gone with the menu (its state starts afresh when it is mounted again); on
\* false the connection-failed alert offers "Retry".
ConnectToChatReturns ==
  /\ isConnecting /\ connPc = "idle"
  /\ IF connResult = "true"
     THEN ScannerMounted
     ELSE /\ scanAlert' = "connectionFailed" /\ isConnecting' = FALSE
          /\ UNCHANGED <<scanning, isProcessingScan, showManualInput, showNameInput,
                         scannedData>>
  /\ UNCHANGED nonScanVars

ScanNext ==
  \/ \E readable \in BOOLEAN : Boot(readable)
  \/ StartScanning
  \/ CancelScanning
  \/ \E t \in Tokens : HandleBarcodeScanned(t)
  \/ OpenManualInput
  \/ CloseManualInput
  \/ \E code \in Tokens \cup {EmptyCode} : ProcessManualCode(code)
  \/ DismissScanAlert
  \/ \E cancel \in BOOLEAN : CloseNameInput(cancel)
  \/ \E n \in LocalNames \cup {""} : ConnectToChat(n)
  \/ \E ok \in BOOLEAN : EstablishPersisted(ok)
  \/ \E ok, subOk \in BOOLEAN : EstablishConnected(ok, subOk)
  \/ ConnectToChatReturns
  \/ CloseChat

ScanSpec == Init /\ [][ScanNext]_vars

\* ------------------------------------------------- a device used before
\* Process start on a device that joined session "s1" in an earlier run and was
\* then killed: memory is as at any process start, AsyncStorage still holds the
\* descriptor of that session and the store the ChatSession row written when
\* the chat was opened (handleConnectionEstablished leaves the user's own name
\* in it).
ReturningInit ==
  /\ currentSessionId = null /\ currentUserName = null
  /\ firebaseSubscribedForSession = null
  /\ connPc = "idle" /\ connInfo = NoConn /\ connOrigin = "none" /\ connResult = "none"
  /\ lastConnNotify = "none" /\ lastFanout = NoFanout
  /\ fbEnabled \in BOOLEAN
  /\ fbConnected = FALSE /\ fbSubs = {} /\ channel = {} /\ pendingSys = {}
  /\ subCount = [s \in Sessions |-> 0]
  /\ delivered = {}
  /\ storedConnection = ConnInfo("s1", "Alice") /\ sessionEnded = {}
  /\ dbMessages = <<>>
  /\ dbSessions = [s \in {"s1"} |-> SessionRow("Alice", 1, 1)]
  /\ isInitialized = FALSE /\ notification = null
  /\ chatSession = null /\ messages = <<>> /\ peerDisconnected = FALSE
  /\ lastAlert = "none"
  /\ sendPc = "idle" /\ sendMsg = NoRow /\ sendMounted = FALSE
  /\ msgData = NoEvent /\ sendResult = "none"
  /\ now = 1 /\ discProcessed = {} /\ ops = 0 /\ net = 0
  /\ messageListeners = <<>> /\ connectionListeners = <<>>
  /\ called = <<>> /\ logged = {}
  /\ timedOut = FALSE
  /\ sessionRows = <<>> /\ deletePc = null
  /\ isInitializedFlag = FALSE /\ initializePromise = "none" /\ db = null
  /\ initPc = "none" /\ running = 0 /\ opPc = [c \in Callers |-> "idle"]
  /\ scanning = FALSE /\ isProcessingScan = FALSE /\ showManualInput = FALSE
  /\ showNameInput = FALSE /\ scannedData = NoConn /\ isConnecting = FALSE
  /\ scanAlert = "none"

\* The user's actions from there on: the restore at launch, hosting or joining
\* a session, opening a chat from the generator or the history, sending.
ReturningNext ==
  \/ \E readable \in BOOLEAN : Boot(readable)
  \/ \E s \in Sessions, n \in LocalNames, origin \in {"host", "join"} : Connect(s, n, origin)
  \/ \E ok \in BOOLEAN : EstablishPersisted(ok)
  \/ \E ok, subOk \in BOOLEAN : EstablishConnected(ok, subOk)
  \/ \E s \in Sessions, from \in {"generator", "history"} : OpenChat(s, from)
  \/ CloseChat
  \/ ChatSendStart
  \/ \E ok \in BOOLEAN : ChatSendSaved(ok)
  \/ \E ok \in BOOLEAN : ChatSendTouched(ok)
  \/ \E ok \in BOOLEAN : ChatSendPublished(ok)
  \/ Tick

ReturningSpec == ReturningInit /\ [][ReturningNext]_vars

\* ------------------------------------------- disconnect during an attempt
\* The QR generator shows its controls as soon as the code is drawn, while
\* initializeConnection is still awaited: "Generate New" (resetQRCode) or
\* "Disconnect" calls disconnect() with the attempt in flight, and
\* establishConnection goes on from its await afterwards.
DisconnectPending(flagOk, removeOk, nameOk) ==
  /\ isInitialized /\ connPc # "idle" /\ connOrigin = "host" /\ ops < MaxOps
  /\ chatSession = null
  /\ DisconnectBody(flagOk, removeOk, nameOk)

\* The host's side of the manager: attempts, and disconnect() at any time.
RaceNext ==
  \/ \E readable \in BOOLEAN : Boot(readable)
  \/ \E s \in Sessions, n \in LocalNames : Connect(s, n, "host")
  \/ \E ok \in BOOLEAN : EstablishPersisted(ok)
  \/ \E ok, subOk \in BOOLEAN : EstablishConnected(ok, subOk)
  \/ \E flagOk, removeOk, nameOk \in BOOLEAN : Disconnect(flagOk, removeOk, nameOk)
  \/ \E flagOk, removeOk, nameOk \in BOOLEAN : DisconnectPending(flagOk, removeOk, nameOk)
  \/ Restart

RaceSpec == Init /\ [][RaceNext]_vars

\* ================================================================ claims
\* rows holds the row r.
HasRow(rows, r) == \E i \in DOMAIN rows : rows[i] = r

\* ChatInterface.sendMessage has accepted a send in this step.
SendAccepted == sendPc = "idle" /\ sendPc' = "save"

\* ---------------------------------------------------------------- C1
\* C1: a copy of a message the local user sent, coming back through the
\* channel or the loopback path with the local user's name as sender, is never
\* persisted as a Message row (such a row would be an isOwn=false row carrying
\* a local name) and never added to the chat view as a received message, also
\* when disconnect() ran while the send was in flight.
C1_EchoNeverPersisted ==
  /\ \A i \in DOMAIN dbMessages :
       ~dbMessages[i].isOwn => dbMessages[i].sender \notin LocalNames
  /\ \A i \in DOMAIN messages :
       ~messages[i].isOwn => messages[i].sender \notin LocalNames

\* ---------------------------------------------------------------- C2
\* C2: however often the channel hands the same peer message (same session,
\* sender and timestamp) to the subscription callback, the store holds at most
\* one row for it, so getMessages returns it once.
C2_OneRowPerPeerMessage ==
  \A e \in PeerEvents :
    e.type = "user" =>
      Cardinality({i \in DOMAIN GetMessages(dbMessages, e.sessionId) :
                     LET r == GetMessages(dbMessages, e.sessionId)[i]
                     IN r.sender = e.sender /\ r.timestamp = e.timestamp
                        /\ r.content = e.content /\ ~r.isOwn}) <= 1

\* ---------------------------------------------------------------- C3
\* C3: once a "disconnected" event of the peer has been processed for a
\* session, with its chat screen open or not, the chat screen accepts no
\* further send for that session (it answers with the session-ended alert),
\* also after a restart and restoreConnection(); and the session stays listed.
C3_NoSendAfterPeerDisconnect ==
  [][/\ SendAccepted => chatSession \notin discProcessed
     /\ \A s \in Sessions :
          (s \in discProcessed /\ s \in GetChatSessions(dbSessions))
            => s \in GetChatSessions(dbSessions')]_vars

\* ---------------------------------------------------------------- C4
\* C4: an accepted send is appended to the view first, then saved with
\* isOwn=true, then the session's lastMessageAt is updated, and only then
\* published: whenever the publish is attempted the row exists, and it is
\* still returned by getMessages once the publish has succeeded, failed or
\* gone through the loopback path.
C4_SavedBeforePublish ==
  [][/\ SendAccepted =>
          /\ sendMsg'.isOwn /\ messages' = Append(messages, sendMsg')
          /\ dbMessages' = dbMessages /\ channel' = channel
     /\ (sendPc = "save" /\ sendPc' = "touch") =>
          /\ dbMessages' = Append(dbMessages, sendMsg)
          /\ dbSessions' = dbSessions /\ channel' = channel
     /\ sendPc' = "publishing" =>
          /\ HasRow(dbMessages', sendMsg')
          /\ sendPc \in {"touch", "publishing"}
     /\ (sendPc = "publishing" /\ sendPc' = "idle") =>
          HasRow(GetMessages(dbMessages', sendMsg.sessionId), sendMsg)]_vars

\* A publish has failed and the user's own row is in the store.
C4_Witness ==
  /\ fbEnabled /\ IsConnected /\ sendPc = "idle" /\ sendResult = "false"
  /\ \E i \in DOMAIN dbMessages : dbMessages[i].isOwn

\* ---------------------------------------------------------------- C5
\* The channel hands every event of a subscribed session to the subscription
\* callback at least once (specification, section 1: at-least-once delivery).
LiveSpec == Init /\ [][Next]_vars /\ WF_vars(\E e \in AllEvents : FirstDeliver(e))

\* The row notifyMessageListeners stores for the event e.
IncomingRow(e) == Row(e.sessionId, e.sender, e.content, e.timestamp, FALSE)

C6_FailedInitLeavesDisconnected ==
  [][/\ (connPc # "idle" /\ connPc' = "idle" /\ connResult' = "false") =>
          (lastConnNotify' = "false" /\ currentSessionId' = null)
     /\ (sendPc = "touch" /\ sendPc' = "publishing") => connResult # "false"]_vars

\* ---------------------------------------------------------------- C7
\* C7: in every attempt the descriptor is in the 'currentConnection' slot
\* before the adapter's connect is called and before a listener hears true;
\* listeners hear true only in the step that completes an attempt, and with a
\* backend only once connect has succeeded and the session is subscribed.
C7_PersistBeforeConnectAndNotify ==
  [][/\ (connPc # "connect" /\ connPc' = "connect") =>
          (connPc = "persist" /\ storedConnection' = connInfo')
     /\ (fbConnected' /\ ~fbConnected) => storedConnection = connInfo
     /\ (connPc # "idle" /\ connPc' = "idle" /\ connResult' = "true") =>
          /\ storedConnection' = connInfo /\ lastConnNotify' = "true"
          /\ fbEnabled => /\ connPc = "connect" /\ fbConnected'
                          /\ connInfo.sessionId \in fbSubs'
     /\ (lastConnNotify' = "true" /\ lastConnNotify # "true") =>
          (connPc # "idle" /\ connPc' = "idle" /\ connResult' = "true")]_vars

\* An attempt with a backend has completed: written, connected, subscribed, notified.
C7_Witness ==
  /\ fbEnabled /\ connPc = "idle" /\ connResult = "true" /\ lastConnNotify = "true"
  /\ storedConnection = connInfo /\ fbConnected /\ connInfo.sessionId \in fbSubs

\* ---------------------------------------------------------------- C8
\* C8: MessagingService.sendMessage always returns: false, with nothing
\* published, when there is no session or user name; false when the publish is
\* rejected; true only when the event is on the channel or, in loopback mode,
\* has been handed to the local listeners.
C8_SendMessageReturnsOutcome ==
  [][/\ sendResult' \in {"none", "true", "false"}
     /\ (sendPc = "touch" /\ sendPc' = "publishing") =>
          (currentSessionId # null /\ currentUserName # null)
     /\ (sendPc = "touch" /\ sendResult' # sendResult) =>
          /\ sendResult' = "false" /\ sendPc' = "idle"
          /\ currentSessionId = null \/ currentUserName = null
          /\ channel' = channel /\ lastFanout' = lastFanout
     /\ (sendPc = "publishing" /\ sendPc' = "idle" /\ isInitialized') =>
          sendResult' \in {"true", "false"}
     /\ (sendPc = "publishing" /\ sendResult' = "true") =>
          IF fbEnabled
          THEN UserEvent(msgData.sessionId, msgData.sender, now) \in channel'
          ELSE lastFanout'.event = msgData
     /\ (sendPc = "publishing" /\ sendResult' = "false") =>
          (fbEnabled /\ channel' = channel)]_vars

\* A send in loopback mode has returned true after the local hand-over.
C8_Witness ==
  /\ ~fbEnabled /\ sendPc = "idle" /\ sendResult = "true"
  /\ lastFanout.event.sender \in LocalNames

\* ---------------------------------------------------------------- C9
\* What disconnect() leaves in memory, whatever its writes do.
DisconnectedInMemory ==
  /\ currentSessionId' = null /\ currentUserName' = null
  /\ lastConnNotify' = "false" /\ firebaseSubscribedForSession' = null

C10_NoticeBeforeTeardown ==
  [][\A flagOk, removeOk, nameOk \in BOOLEAN :
       (Disconnect(flagOk, removeOk, nameOk) /\ fbConnected /\ DisconnectNotice # {}) =>
         (DisconnectNotice \subseteq channel' \/ fbConnected')]_vars

\* ---------------------------------------------------------------- C11
\* C11: when an event is fanned out to the message listeners or to the
\* connection listeners, every registered listener is invoked with it, in
\* registration order, whichever listeners raise an error; the errors are
\* logged, and the manager's session state and both registries are as before.
C11_ListenerErrorsIsolated ==
  [][\A throws \in SUBSET Listeners :
       /\ \A e \in PeerEvents :
            FanOutMessage(e, throws) =>
              /\ called' = messageListeners
              /\ logged' = {l \in throws : \E i \in DOMAIN messageListeners :
                                             messageListeners[i] = l}
              /\ UNCHANGED <<msVars, messageListeners, connectionListeners>>
       /\ \A c \in BOOLEAN :
            FanOutConnection(c, throws) =>
              /\ called' = connectionListeners
              /\ UNCHANGED <<msVars, messageListeners, connectionListeners>>]_vars

\* The first of two message listeners raised and the second was still invoked.
C11_Witness ==
  /\ Len(messageListeners) = 2 /\ messageListeners[1] # messageListeners[2]
  /\ called = messageListeners /\ logged = {messageListeners[1]}
  /\ currentSessionId # null

\* ---------------------------------------------------------------- C12
\* C12: on Android an attempt that exceeds the timeout is a failure and
\* nothing more: initializeConnection returns false, the listeners hear false
\* and the manager is disconnected (isConnected() is false); and the abandoned
\* attempt, when it completes later, neither notifies the listeners with true
\* nor subscribes to the channel.
C12_TimeoutIsPlainFailure ==
  [][/\ EstablishTimeout =>
          /\ connResult' = "false" /\ lastConnNotify' = "false"
          /\ currentSessionId' = null
     /\ (timedOut /\ connPc # "idle" /\ connPc' = "idle") =>
          /\ lastConnNotify' # "true"
          /\ fbSubs' = fbSubs]_vars

\* ---------------------------------------------------------------- C13
\* C13: restoreConnection() with no persisted descriptor, or with one that
\* cannot be read, returns false, notifies no listener and leaves the
\* manager's session state as it is; with a persisted descriptor D it does what
\* initializeConnection(D) does: it takes over D's session and user name,
\* issues the write of D, and its attempt ends as any attempt does, returning
\* true with the listeners notified true, or false with them notified false.
C13_RestoreReplaysInitialize ==
  [][/\ \A readable \in BOOLEAN :
          Boot(readable) =>
            IF storedConnection = NoConn \/ ~readable
            THEN /\ connResult' = "false"
                 /\ UNCHANGED <<msVars, lastConnNotify, connPc, fbVars, storedConnection>>
            ELSE /\ currentSessionId' = storedConnection.sessionId
                 /\ currentUserName' = storedConnection.userName
                 /\ connPc' = "persist" /\ connInfo' = storedConnection
                 /\ connResult' = "none" /\ lastConnNotify' = lastConnNotify
     /\ (connOrigin = "restore" /\ connOrigin' = "restore"
           /\ connPc # "idle" /\ connPc' = "idle") =>
          /\ connResult' \in {"true", "false"}
          /\ lastConnNotify' = connResult'
          /\ connResult' = "true" => storedConnection' = connInfo]_vars

\* A restored attempt has completed with a backend: connected and subscribed.
C13_Witness ==
  /\ connOrigin = "restore" /\ connPc = "idle" /\ connResult = "true"
  /\ fbEnabled /\ currentSessionId = storedConnection.sessionId
  /\ currentSessionId \in fbSubs

\* ---------------------------------------------------------------- C14
\* C14: sendSystemEvent publishes nothing and changes nothing when there is no
\* current session or no backend is active: in every state of that kind the
\* call starts no publish, and without a backend no system event of the local
\* user is ever pending or on the channel.  A publish that fails is swallowed:
\* the event leaves the pending set, the channel and everything else stay as
\* they are, and the event is not issued again by that step.
C14_SystemEventBestEffort ==
  /\ [](\A ev \in {"joined", "disconnected"}, n \in LocalNames \cup {""} :
          (currentSessionId = null \/ ~fbEnabled) => SendSystemEvent(ev, n) = {})
  /\ [](~fbEnabled =>
          /\ pendingSys = {}
          /\ \A e \in channel : ~(e.type = "system" /\ e.sender \in LocalNames))
  /\ [][/\ (connOrigin = "join" /\ connPc # "idle" /\ connPc' = "idle"
            /\ connResult' = "true") =>
              pendingSys' = pendingSys \cup SendSystemEvent("joined", connInfo.userName)
        /\ \A e \in AllEvents :
             SystemEventSettles(e, FALSE) =>
               /\ e \notin pendingSys' /\ channel' = channel
               /\ UNCHANGED <<msVars, connVars, lastConnNotify, lastAlert, dbVars,
                              chatVars, storedConnection, sessionEnded>>]_vars

\* The joiner's "joined" event was sent, its publish failed, and it is gone.
C14_Witness ==
  /\ fbEnabled /\ connOrigin = "join" /\ connPc = "idle" /\ connResult = "true"
  /\ chatSession # null /\ currentSessionId # null
  /\ pendingSys = {}
  /\ \A e \in channel : ~(e.type = "system" /\ e.sender \in LocalNames)

\* ---------------------------------------------------------------- C15
\* The rows of a sequence that satisfy a test, as a bag of their occurrences.
Occurrences(rows, r) == Cardinality({i \in DOMAIN rows : rows[i] = r})

C16_OneSessionRowPerId ==
  /\ [](/\ \A i, j \in DOMAIN sessionRows :
             sessionRows[i].sessionId = sessionRows[j].sessionId => i = j
        /\ {sessionRows[i].sessionId : i \in DOMAIN sessionRows} = DOMAIN dbSessions
        /\ \A i \in DOMAIN sessionRows :
             dbSessions[sessionRows[i].sessionId]
               = SessionRow(sessionRows[i].participantName, sessionRows[i].createdAt,
                            sessionRows[i].lastMessageAt))
  /\ [][\A s \in Sessions, p \in LocalNames \cup PeerNames :
          StoreSaveChatSession(s, p) =>
            /\ Cardinality({i \in DOMAIN sessionRows' : sessionRows'[i].sessionId = s}) = 1
            /\ \A i \in DOMAIN sessionRows' :
                 sessionRows'[i].sessionId = s => sessionRows'[i].participantName = p
            /\ \A i \in DOMAIN sessionRows :
                 sessionRows[i].sessionId # s =>
                   \E j \in DOMAIN sessionRows' : sessionRows'[j] = sessionRows[i]]_vars

\* A session saved under one name, then, later, under another: one row, the later name.
C16_Witness ==
  /\ ops = 2 /\ now = 2 /\ deletePc = null /\ dbMessages = <<>>
  /\ Len(sessionRows) = 1
  /\ sessionRows[1] = TableRow("s1", "Bob", 2, 2)

\* ---------------------------------------------------------------- C17
\* C17: for any interleaving of store operations called before the
\* initialization has completed, at most one initialization is in flight; an
\* operation reaches its statement only with the flag set and a database
\* handle, that is after an initialization has succeeded; and when the
\* initialization fails, every operation waiting on it is handed the rejection
\* and fails instead of going on.
C17_SingleInitialization ==
  /\ [](/\ running <= 1
        /\ running = 1 <=> initPc # "none"
        /\ \A c \in Callers : opPc[c] \in {"run", "done"} => (isInitializedFlag /\ db # null))
  /\ [][/\ InitStep(FALSE) =>
             \A c \in Callers :
               opPc[c] \in {"joined", "starter"} => opPc'[c] \in {"gotErr", "starterErr"}
        /\ \A c \in Callers :
             (opPc[c] \in {"gotErr", "starterErr"} /\ opPc'[c] # opPc[c]) =>
               opPc'[c] = "failed"
        /\ \A c \in Callers :
             (opPc[c] = "idle" /\ initPc # "none" /\ opPc'[c] # "idle") =>
               (opPc'[c] = "joined" /\ running' = running)]_vars

\* One caller started the initialization, the other joined it, it failed, and
\* both operations have failed.
C17_Witness ==
  /\ ~isInitializedFlag /\ running = 0 /\ initializePromise = "none"
  /\ \A c \in Callers : opPc[c] = "failed"

\* ---------------------------------------------------------------- C18
\* C18: the ended flag is kept per session id and is sticky: no step, restart,
\* navigation or a new attempt for the same session included, clears a flag
\* that is set; and a step sets the flag of one session only, the one it is
\* about: the manager's current session for disconnect(), the session of the
\* open chat screen for a received "disconnected" event of that session.
C18_EndedFlagSticky ==
  [][/\ sessionEnded \subseteq sessionEnded'
     /\ Cardinality(sessionEnded' \ sessionEnded) <= 1
     /\ \A s \in sessionEnded' \ sessionEnded :
          \/ s = currentSessionId /\ currentSessionId' = null
          \/ /\ s = chatSession
             /\ lastFanout'.event.sessionId = s
             /\ lastFanout'.event.event = "disconnected"]_vars

\* A session ended by disconnect() has been connected to again, its flag still
\* set, while the other session has none.
C18_Witness ==
  /\ currentSessionId \in sessionEnded /\ connPc = "idle" /\ connResult = "true"
  /\ sessionEnded = {currentSessionId}

C20_DeleteCascades ==
  /\ [][StoreDeleteSession(TRUE) =>
          /\ GetMessages(dbMessages', deletePc) = <<>>
          /\ deletePc \notin GetChatSessions(dbSessions')
          /\ \A i \in DOMAIN sessionRows' : sessionRows'[i].sessionId # deletePc
          /\ \A s \in Sessions \ {deletePc} :
               /\ GetMessages(dbMessages', s) = GetMessages(dbMessages, s)
               /\ (s \in GetChatSessions(dbSessions)) = (s \in GetChatSessions(dbSessions'))
               /\ s \in GetChatSessions(dbSessions) => dbSessions'[s] = dbSessions[s]]_vars
  /\ [][\A d \in Sessions :
          StoreDeleteMessages(d, TRUE) =>
            /\ dbSessions' = dbSessions
            /\ \A s \in Sessions \ {d} :
                 GetMessages(dbMessages', s) = GetMessages(dbMessages, s)]_vars

\* ---------------------------------------------------------------- C21
\* The tokens that decode: parseable, with a session id and a creator name.
WellFormed(t) == t.parseable /\ t.sessionId \in Sessions /\ t.userName \in PeerNames

\* C21: a scanned or manually entered token that fails to decode is never
\* partially accepted: the step that processes it stores no descriptor, does
\* not open the name prompt, issues no initializeConnection and raises the
\* alert that offers a retry; and initializeConnection is only called from the
\* scanner with the session of a descriptor that decoded successfully.
C21_MalformedTokenRejected ==
  /\ [][\A t \in Tokens :
          ((HandleBarcodeScanned(t) \/ ProcessManualCode(t)) /\ ~WellFormed(t)) =>
            /\ scannedData' = scannedData
            /\ ~showNameInput'
            /\ scanAlert' = "invalid"
            /\ UNCHANGED <<msVars, connVars, storedConnection>>]_vars
  /\ [](scannedData = NoConn
          \/ \E t \in Tokens : WellFormed(t) /\ scannedData = ConnInfo(t.sessionId, t.userName))
  /\ [][\A n \in LocalNames \cup {""} :
          (ConnectToChat(n) /\ connPc' = "persist") =>
            /\ \E t \in Tokens : WellFormed(t) /\ connInfo'.sessionId = t.sessionId
            /\ connInfo'.sessionId = scannedData.sessionId /\ n # ""]_vars

\* A token that does not decode was entered while the descriptor of an earlier
\* scan is still held: the alert is up, the name prompt is closed and no
\* attempt is under way.
C21_Witness ==
  /\ scanAlert = "invalid" /\ scannedData # NoConn /\ ~showNameInput
  /\ connPc = "idle" /\ currentSessionId = null

\* ---------------------------------------------------------------- C22
\* C22: every send started from the chat screen ends in an outcome the user
\* sees: at the step where MessagingService.sendMessage returns false to the
\* chat screen's send, the chat screen (if it is still mounted) raises its
\* send-failure alert.
C22_FailedPublishReported ==
  [][(sendPc \in {"touch", "publishing"} /\ sendResult' = "false" /\ sendMounted')
       => lastAlert' = "sendFailed"]_vars

\* ---------------------------------------------------------------- C23
\* C23: only inbound user messages become Message rows: the step that hands a
\* system event ("joined", "disconnected") to the fan-out inserts no row into
\* the store and appends nothing to the chat view's message list, and a row
\* inserted for an inbound user message has isOwn = FALSE.
C23_SystemEventsNotStored ==
  [][\A e \in AllEvents :
       (FirstDeliver(e) \/ Redeliver(e)) =>
         IF e.type = "system"
         THEN dbMessages' = dbMessages /\ messages' = messages
         ELSE \A i \in DOMAIN dbMessages' \ DOMAIN dbMessages : ~dbMessages'[i].isOwn]_vars

\* ---------------------------------------------------------------- C24
\* C24: once a "joined" event whose actor name N is present and is no
\* placeholder has been processed for session S, getChatSessions() holds a
\* ChatSession for S with participantName N, whether or not the chat screen
\* was open when the event arrived.
C24_JoinedSetsParticipantName ==
  [][\A e \in PeerEvents :
       ((FirstDeliver(e) \/ Redeliver(e)) /\ e.type = "system" /\ e.event = "joined") =>
         /\ e.sessionId \in GetChatSessions(dbSessions')
         /\ dbSessions'[e.sessionId].participantName = e.sender]_vars

\* ---------------------------------------------------------------- C25
\* C25: the first inbound message for a session without a ChatSession row
\* creates the row; so every persisted Message belongs to a session that has a
\* ChatSession row.
C25_MessagesHaveSessionRow ==
  /\ [][\A e \in PeerEvents :
          ((FirstDeliver(e) \/ Redeliver(e)) /\ e.type = "user") =>
            e.sessionId \in GetChatSessions(dbSessions')]_vars
  /\ [](\A i \in DOMAIN dbMessages : dbMessages[i].sessionId \in GetChatSessions(dbSessions))

\* ---------------------------------------------------------------- C26
\* C26: when persisting the message raises an error in the chat screen's send
\* (the catch runs, with the screen still mounted), the optimistically appended
\* message is removed from the message list: the view holds it once less than
\* before, and so shows no own message of this send that was not stored.
C26_FailedSendRemovedFromView ==
  [][(sendPc \in {"save", "touch"} /\ lastAlert' = "sendFailed" /\ sendMounted) =>
       /\ Occurrences(messages', sendMsg) = Occurrences(messages, sendMsg) - 1
       /\ sendPc = "save" =>
            Occurrences(messages', sendMsg) <= Occurrences(dbMessages', sendMsg)]_vars

\* ---------------------------------------------------------------- C27
\* C27: a message the chat screen persists under session X is published on
\* the channel of X: when MessagingService.sendMessage stamps the event of a
\* send, its sessionId is the sessionId of the Message row of that send, also
\* with the chat screen opened from the history or a notification while the
\* manager is connected to another session.
C27_PublishedOnStoredSession ==
  [][(sendPc = "touch" /\ sendPc' = "publishing") =>
       msgData'.sessionId = sendMsg.sessionId]_vars

\* ---------------------------------------------------------------- C28
\* C28: in every reachable state the participantName stored for a session is
\* the placeholder "Unknown" or a display name reported by the remote peer; it
\* is never the local user's own display name.
C28_ParticipantNameIsPeers ==
  \A s \in GetChatSessions(dbSessions) :
    /\ dbSessions[s].participantName \in {Unknown} \cup PeerNames
    /\ dbSessions[s].participantName \notin LocalNames

\* ---------------------------------------------------------------- C29
\* C29: for every interleaving of initializeConnection, restoreConnection and
\* disconnect, once every operation has completed the value last delivered to
\* the connection listeners equals isConnected(): never true without a
\* current session, never false with one.
C29_ListenersAgreeWithManager ==
  (connPc = "idle" /\ lastConnNotify # "none") =>
    ((lastConnNotify = "true") <=> IsConnected)

\* ---------------------------------------------------------------- C30
\* The largest timestamp among the stored messages of a session (0 if none).
LatestStored(rows, s) ==
  LET ts == {rows[i].timestamp : i \in {j \in DOMAIN rows : rows[j].sessionId = s}}
  IN IF ts = {} THEN 0 ELSE CHOOSE t \in ts : \A u \in ts : u <= t

\* The step processes a message: an inbound user message is handed to the
\* fan-out, or the chat screen's send has stored its message and touched the
\* session.
MessageProcessed ==
  \/ \E e \in AllEvents : e.type = "user" /\ (FirstDeliver(e) \/ Redeliver(e))
  \/ sendPc = "touch" /\ ChatSendTouched(TRUE)

\* C30: for every session lastMessageAt never decreases across inbound and
\* outbound messages and, after each message is processed, is at least the
\* largest timestamp of the session's stored messages; so the session holding
\* the most recent message has the largest lastMessageAt and getChatSessions()
\* (ORDER BY lastMessageAt DESC) lists it first.
C30_LastMessageAtMonotone ==
  [][MessageProcessed =>
       \A s \in GetChatSessions(dbSessions) \cap GetChatSessions(dbSessions') :
         /\ dbSessions'[s].lastMessageAt >= dbSessions[s].lastMessageAt
         /\ dbSessions'[s].lastMessageAt >= LatestStored(dbMessages', s)
         /\ \A u \in GetChatSessions(dbSessions') :
              LatestStored(dbMessages', s) > LatestStored(dbMessages', u) =>
                dbSessions'[s].lastMessageAt >= dbSessions'[u].lastMessageAt]_vars

====
